---- MODULE Spec2Model ----
(***************************************************************************)
(* Kubelet hunters of kube_hunter/modules/hunting/kubelet.py.              *)
(*                                                                         *)
(* One behaviour is the handling of one event by the handler class the     *)
(* event bus instantiates for it: ReadOnlyKubeletPortHunter,                *)
(* SecureKubeletPortHunter, ProveRunHandler or ProveContainerLogsHandler.   *)
(* Every HTTP response is an input chosen by the environment when the      *)
(* request is made; a transport failure is the exception the requests      *)
(* library raises from the call.                                           *)
(***************************************************************************)
EXTENDS Integers, Sequences, FiniteSets, TLC

VARIABLES
    hunter,                 \* class of the handler instance
    config_pod,             \* get_config().pod
    event,                  \* self.event: flags, token, session, evidence
    session,                \* self.session (the Authorization header it carries)
    pc,                     \* position in execute()
    pods_endpoint_data,     \* self.pods_endpoint_data
    k8s_version,            \* local of ReadOnlyKubeletPortHunter.execute
    privileged_containers,  \* local of ReadOnlyKubeletPortHunter.execute
    healthz,                \* local of both execute methods
    pod,                    \* local of test_handlers: the probing target
    findings,               \* the vulnerabilities yielded so far, in order
    requests,               \* the HTTP requests sent so far, in order
    responses,              \* the responses received so far, in order
    exc,                    \* exception that left execute(), "" if none
    caught,                 \* exception swallowed by test_handlers' except
    pods_data,              \* local of the Prove*.execute loops
    idx                     \* position of the Prove*.execute loops in pods_data

vars == <<hunter, config_pod, event, session, pc, pods_endpoint_data, k8s_version,
          privileged_containers, healthz, pod, findings, requests, responses,
          exc, caught, pods_data, idx>>

---------------------------------------------------------------------------
(* Bounds of the inputs. *)

MaxPods == 2          \* pods in a listing fetched by the read-only hunter
MaxContainers == 2    \* containers declared by one pod
MaxSecPods == 2       \* pods in a listing fetched on the secure port

SeqsUpTo(S, n) == UNION {[1..k -> S] : k \in 0..n}

---------------------------------------------------------------------------
(* Python values. *)

\* None, False, "" and the values the hunters compute, with Python's truth value.
\* A Python string is the sequence of its fragments; "" is <<>>.
EmptyStr == <<>>
PyNone == [kind |-> "None", text |-> EmptyStr, items |-> <<>>]
PyFalse == [kind |-> "False", text |-> EmptyStr, items |-> <<>>]
PyStr(s) == [kind |-> "str", text |-> s, items |-> <<>>]
PyList(l) == [kind |-> "list", text |-> EmptyStr, items |-> l]
\* a decoded JSON object that has an "items" array
PyDict(l) == [kind |-> "dict", text |-> EmptyStr, items |-> l]
\* a decoded JSON object without an "items" key (non-empty)
PyDictNoItems == [kind |-> "dict_noitems", text |-> EmptyStr, items |-> <<>>]
\* the decoded JSON object {}
PyDictEmpty == [kind |-> "dict_empty", text |-> EmptyStr, items |-> <<>>]

Truthy(v) ==
    CASE v.kind = "None" -> FALSE
      [] v.kind = "False" -> FALSE
      [] v.kind = "str" -> v.text # EmptyStr
      [] v.kind = "list" -> v.items # <<>>
      [] v.kind = "dict" -> TRUE
      [] v.kind = "dict_noitems" -> TRUE
      [] v.kind = "dict_empty" -> FALSE

\* marker in text
Contains(text, marker) == \E i \in 1..Len(text) : text[i] = marker

---------------------------------------------------------------------------
(* The decoded /pods document: {"items": [pod, ...]}. *)

PodName(i) == "pod-" \o ToString(i)
ContainerName(j) == "container-" \o ToString(j)

\* pod number i of a listing; privs[j] is securityContext.privileged of container j
MkPod(i, namespace, phase, privs) ==
    [metadata |-> [name |-> PodName(i), namespace |-> namespace],
     status   |-> [phase |-> phase],
     spec     |-> [containers |->
                     [j \in 1..Len(privs) |->
                        [name |-> ContainerName(j),
                         securityContext |-> [privileged |-> privs[j]]]]]]

Namespaces == {"default", "kube-system", "monitoring"}
Phases == {"Running", "Pending"}

\* listings the read-only port answers with: the scan reads the containers only
ROShapes == [namespace : {"default"}, phase : {"Running"},
             privs : SeqsUpTo(BOOLEAN, MaxContainers)]
\* listings the secure port answers with: the selector reads namespace and phase,
\* and a pod declares no container or MaxContainers of them
SecShapes == [namespace : Namespaces, phase : Phases,
              privs : {[j \in 1..k |-> FALSE] : k \in {0, MaxContainers}}]

ListingOf(shapes) ==
    [i \in 1..Len(shapes) |->
        MkPod(i, shapes[i].namespace, shapes[i].phase, shapes[i].privs)]

ROListings == {ListingOf(s) : s \in SeqsUpTo(ROShapes, MaxPods)}
SecListings == {ListingOf(s) : s \in SeqsUpTo(SecShapes, MaxSecPods)}
\* listings answered when the scanner runs in a pod of the cluster (config.pod)
SelfTestListings ==
    {l \in SecListings : /\ Len(l) <= 1
                         /\ \A i \in 1..Len(l) : /\ l[i].metadata.namespace = "default"
                                                 /\ l[i].status.phase = "Running"}

---------------------------------------------------------------------------
(* HTTP responses.  A transport failure raises from the request call. *)

JsonInvalid == [valid |-> FALSE, value |-> PyNone]
Json(v) == [valid |-> TRUE, value |-> v]

TransportError == [ok |-> FALSE, status |-> 0, text |-> EmptyStr, json |-> JsonInvalid]
Response(status, text, json) == [ok |-> TRUE, status |-> status, text |-> text, json |-> json]

\* GET /pods: an error page, a body that holds the word "items" and is no JSON,
\* a JSON object that holds the word and has no "items" key, or a listing
PodsResponses(listings) ==
    {TransportError,
     Response(403, <<"Forbidden">>, JsonInvalid),
     Response(200, <<"<html>", "items", "</html>">>, JsonInvalid),
     Response(200, <<"{", "kind", "items", "}">>, Json(PyDictNoItems))}
    \cup {Response(200, <<"{", "items", "}">>, Json(PyDict(l))) : l \in listings}

\* GET /healthz
HealthzResponses ==
    {TransportError,
     Response(200, <<"ok">>, JsonInvalid),
     Response(200, EmptyStr, JsonInvalid),
     Response(500, <<"unhealthy">>, JsonInvalid)}

\* GET /metrics: the body is given by its lines (metrics.split("\n")); a line by
\* the name it starts with and by the pieces that the text between "{" and "}"
\* splits into at "," and each of those at "="
Quote == "\""
OtherLine == [metric |-> "process_cpu_seconds_total", labels |-> <<>>]
BuildInfo(labels) == [metric |-> "kubernetes_build_info", labels |-> labels]
MetricsBodies ==
    {<<>>,
     <<OtherLine>>,
     <<OtherLine, BuildInfo(<< <<<<"major">>, <<Quote, "1", Quote>>>>,
                               <<<<"gitVersion">>, <<Quote, "v1.18.0", Quote>>>> >>)>>,
     <<BuildInfo(<< <<<<"major">>, <<Quote, "1", Quote>>>> >>)>>,
     <<BuildInfo(<< <<<<"gitVersion">>>> >>)>>}
MetricsResponses ==
    {TransportError} \cup {Response(200, b, JsonInvalid) : b \in MetricsBodies}

---------------------------------------------------------------------------
(* Requests. *)

NoAuth == "none"
Bearer(token) == "Bearer " \o token

\* a request sent with the module-level requests.get: no session headers
PlainRequest(endpoint) == [endpoint |-> endpoint, via |-> "requests", authorization |-> NoAuth]
\* a request sent with session.get / session.post: carries the session's headers
SessionRequest(endpoint, s) == [endpoint |-> endpoint, via |-> "session", authorization |-> s.authorization]

\* what the log keeps of a response
Received(endpoint, r) == [endpoint |-> endpoint, ok |-> r.ok, status |-> r.status, text |-> r.text]

---------------------------------------------------------------------------
(* Vulnerabilities (the events a hunter yields). *)

NoEvidence == [fmt |-> "", args |-> <<>>]
Vulnerability(type, vid, evidence) ==
    [type |-> type, vid |-> vid, evidence |-> evidence, pods |-> <<>>, count |-> 0,
     status |-> EmptyStr, containers |-> <<>>, cmdline |-> EmptyStr, version |-> EmptyStr]

ExposedPodsHandler(pods) ==
    [Vulnerability("ExposedPodsHandler", "",
                   [fmt |-> "count: {}", args |-> <<Len(pods)>>])
        EXCEPT !.pods = pods]
AnonymousAuthEnabled == Vulnerability("AnonymousAuthEnabled", "KHV036", NoEvidence)
ExposedContainerLogsHandler == Vulnerability("ExposedContainerLogsHandler", "KHV037", NoEvidence)
ExposedRunningPodsHandler(count) ==
    [Vulnerability("ExposedRunningPodsHandler", "KHV038",
                   [fmt |-> "{} running pods", args |-> <<count>>])
        EXCEPT !.count = count]
ExposedExecHandler == Vulnerability("ExposedExecHandler", "KHV039", NoEvidence)
ExposedRunHandler == Vulnerability("ExposedRunHandler", "KHV040", NoEvidence)
ExposedPortForwardHandler == Vulnerability("ExposedPortForwardHandler", "KHV041", NoEvidence)
ExposedAttachHandler == Vulnerability("ExposedAttachHandler", "KHV042", NoEvidence)
ExposedHealthzHandler(status) ==
    [Vulnerability("ExposedHealthzHandler", "KHV043",
                   [fmt |-> "status: {}", args |-> <<status>>])
        EXCEPT !.status = status]
PrivilegedContainers(containers) ==
    [Vulnerability("PrivilegedContainers", "KHV044",
                   [fmt |-> "pod: {}, container: {}, count: {}",
                    args |-> <<containers[1][1], containers[1][2], Len(containers)>>])
        EXCEPT !.containers = containers]
ExposedSystemLogs == Vulnerability("ExposedSystemLogs", "KHV045", NoEvidence)
ExposedKubeletCmdline(cmdline) ==
    [Vulnerability("ExposedKubeletCmdline", "KHV046",
                   [fmt |-> "cmdline: {}", args |-> <<cmdline>>])
        EXCEPT !.cmdline = cmdline]
K8sVersionDisclosure(version) ==
    [Vulnerability("K8sVersionDisclosure", "", NoEvidence) EXCEPT !.version = version]

---------------------------------------------------------------------------
(* Results of a call: a value, or the exception it raised. *)

Returns(v) == [exc |-> "", value |-> v]
Raises(e) == [exc |-> e, value |-> PyNone]

---------------------------------------------------------------------------
(* ReadOnlyKubeletPortHunter *)

\* v.strip('"')
RECURSIVE StripLeft(_)
StripLeft(v) == IF v # <<>> /\ Head(v) = Quote THEN StripLeft(Tail(v)) ELSE v
RECURSIVE StripRight(_)
StripRight(v) ==
    IF v # <<>> /\ v[Len(v)] = Quote THEN StripRight(SubSeq(v, 1, Len(v) - 1)) ELSE v
Strip(v) == StripRight(StripLeft(v))

\* the inner loop of get_k8s_version over the labels of one build-info line:
\* "found" with the version, "none" when the labels hold no gitVersion
RECURSIVE ScanLabels(_)
ScanLabels(labels) ==
    IF labels = <<>> THEN [exc |-> "", found |-> FALSE, value |-> PyNone]
    ELSE LET info == Head(labels) IN
         IF Len(info) # 2 THEN [exc |-> "ValueError", found |-> FALSE, value |-> PyNone]
         ELSE IF info[1] = <<"gitVersion">>
              THEN [exc |-> "", found |-> TRUE, value |-> PyStr(Strip(info[2]))]
              ELSE ScanLabels(Tail(labels))

\* the outer loop of get_k8s_version over the lines of the metrics document
RECURSIVE ScanLines(_)
ScanLines(lines) ==
    IF lines = <<>> THEN Returns(PyNone)
    ELSE IF Head(lines).metric = "kubernetes_build_info"
         THEN LET r == ScanLabels(Head(lines).labels) IN
              IF r.exc # "" THEN Raises(r.exc)
              ELSE IF r.found THEN Returns(r.value)
              ELSE ScanLines(Tail(lines))
         ELSE ScanLines(Tail(lines))

get_k8s_version(response) ==
    IF ~response.ok THEN Raises("RequestException") ELSE ScanLines(response.text)

\* PrivilegedOf with a slip: leaves the inner loop at the first privileged container
RECURSIVE PrivilegedOf_FirstOnly(_, _)
PrivilegedOf_FirstOnly(p, containers) ==
    IF containers = <<>> THEN <<>>
    ELSE IF Head(containers).securityContext.privileged
         THEN << <<p.metadata.name, Head(containers).name>> >>
         ELSE PrivilegedOf_FirstOnly(p, Tail(containers))

\* the privileged containers of one pod, in declaration order
RECURSIVE PrivilegedOf(_, _)
PrivilegedOf(p, containers) ==
    IF containers = <<>> THEN <<>>
    ELSE (IF Head(containers).securityContext.privileged
          THEN << <<p.metadata.name, Head(containers).name>> >> ELSE <<>>)
         \o PrivilegedOf(p, Tail(containers))

\* the two loops of find_privileged_containers
RECURSIVE PrivilegedIn(_)
PrivilegedIn(items) ==
    IF items = <<>> THEN <<>>
    ELSE PrivilegedOf(Head(items), Head(items).spec.containers) \o PrivilegedIn(Tail(items))

find_privileged_containers(data) ==
    IF ~Truthy(data) THEN Returns(PyNone)
    ELSE IF data.kind # "dict" THEN Raises("KeyError")
    ELSE LET l == PrivilegedIn(data.items) IN
         Returns(IF Len(l) > 0 THEN PyList(l) ELSE PyNone)

\* get_pods_endpoint of both port hunters, applied to the response
get_pods_endpoint(response) ==
    IF ~response.ok THEN Raises("RequestException")
    ELSE IF Contains(response.text, "items")
         THEN (IF response.json.valid THEN Returns(response.json.value)
               ELSE Raises("ValueError"))
         ELSE Returns(PyNone)

\* check_healthz_endpoint of both port hunters, applied to the response
check_healthz_endpoint(response) ==
    IF ~response.ok THEN Raises("RequestException")
    ELSE Returns(IF response.status = 200 THEN PyStr(response.text) ELSE PyFalse)

---------------------------------------------------------------------------
(* State after construction of the handler for the delivered event. *)

Hunters == {"ReadOnlyKubeletPortHunter", "SecureKubeletPortHunter",
            "ProveRunHandler", "ProveContainerLogsHandler"}

Token == "token"

\* SecureKubeletPortHunter.__init__: the session, with the bearer credential
\* when the event is an authenticated one
SecureSession(secure, auth_token) ==
    [authorization |-> IF secure THEN Bearer(auth_token) ELSE NoAuth]

\* the event a handler is constructed with; a Prove* handler gets the
\* vulnerability a secure-port run published, with that run's session on it
Event(secure, anonymous_auth) ==
    [secure |-> secure, anonymous_auth |-> anonymous_auth, auth_token |-> Token,
     session |-> SecureSession(secure, Token), evidence |-> PyNone]

Init ==
    /\ hunter \in Hunters
    /\ config_pod \in BOOLEAN
    /\ \E secure \in BOOLEAN, anonymous_auth \in BOOLEAN :
          /\ hunter = "ReadOnlyKubeletPortHunter" => ~secure /\ ~anonymous_auth
          /\ hunter \in {"ProveRunHandler", "ProveContainerLogsHandler"} => ~anonymous_auth
          /\ event = Event(secure, anonymous_auth)
    /\ session = event.session
    /\ pc = IF hunter = "SecureKubeletPortHunter" THEN "anonymous_auth" ELSE "get_pods"
    /\ pods_endpoint_data = PyStr(EmptyStr)
    /\ k8s_version = PyNone
    /\ privileged_containers = PyNone
    /\ healthz = PyNone
    /\ pod = [kind |-> "None", name |-> "", container |-> "", namespace |-> ""]
    /\ findings = <<>>
    /\ requests = <<>>
    /\ responses = <<>>
    /\ exc = ""
    /\ caught = ""
    /\ pods_data = <<>>
    /\ idx = 1

\* an exception leaves execute()
Raise(e) == pc' = "raised" /\ exc' = e

\* a request is sent and its response (or its failure) comes back
Exchange(request, response) ==
    /\ requests' = Append(requests, request)
    /\ responses' = Append(responses, Received(request.endpoint, response))

\* yield v
Yield(v) == findings' = Append(findings, v)

Finished == pc \in {"done", "raised"}

---------------------------------------------------------------------------
(* ReadOnlyKubeletPortHunter.execute *)

RO == hunter = "ReadOnlyKubeletPortHunter"

\* self.pods_endpoint_data = self.get_pods_endpoint()
RO_get_pods_endpoint ==
    /\ RO /\ pc = "get_pods"
    /\ \E response \in PodsResponses(ROListings) :
          LET r == get_pods_endpoint(response) IN
          /\ Exchange(PlainRequest("pods"), response)
          /\ IF r.exc # ""
             THEN Raise(r.exc) /\ UNCHANGED pods_endpoint_data
             ELSE pods_endpoint_data' = r.value /\ pc' = "get_k8s_version" /\ UNCHANGED exc
    /\ UNCHANGED <<hunter, config_pod, event, session, k8s_version, privileged_containers,
                   healthz, pod, findings, caught, pods_data, idx>>

\* k8s_version = self.get_k8s_version()
RO_get_k8s_version ==
    /\ RO /\ pc = "get_k8s_version"
    /\ \E response \in MetricsResponses :
          LET r == get_k8s_version(response) IN
          /\ Exchange(PlainRequest("metrics"), response)
          /\ IF r.exc # ""
             THEN Raise(r.exc) /\ UNCHANGED k8s_version
             ELSE k8s_version' = r.value /\ pc' = "find_privileged_containers" /\ UNCHANGED exc
    /\ UNCHANGED <<hunter, config_pod, event, session, pods_endpoint_data,
                   privileged_containers, healthz, pod, findings, caught, pods_data, idx>>

\* privileged_containers = self.find_privileged_containers()
RO_find_privileged_containers ==
    /\ RO /\ pc = "find_privileged_containers"
    /\ LET r == find_privileged_containers(pods_endpoint_data) IN
          IF r.exc # ""
          THEN Raise(r.exc) /\ UNCHANGED privileged_containers
          ELSE privileged_containers' = r.value /\ pc' = "check_healthz" /\ UNCHANGED exc
    /\ UNCHANGED <<hunter, config_pod, event, session, pods_endpoint_data, k8s_version,
                   healthz, pod, findings, requests, responses, caught, pods_data, idx>>

\* healthz = self.check_healthz_endpoint()
RO_check_healthz_endpoint ==
    /\ RO /\ pc = "check_healthz"
    /\ \E response \in HealthzResponses :
          LET r == check_healthz_endpoint(response) IN
          /\ Exchange(PlainRequest("healthz"), response)
          /\ IF r.exc # ""
             THEN Raise(r.exc) /\ UNCHANGED healthz
             ELSE healthz' = r.value /\ pc' = "yield_version" /\ UNCHANGED exc
    /\ UNCHANGED <<hunter, config_pod, event, session, pods_endpoint_data, k8s_version,
                   privileged_containers, pod, findings, caught, pods_data, idx>>

\* if k8s_version: yield K8sVersionDisclosure(...)
RO_yield_version ==
    /\ RO /\ pc = "yield_version"
    /\ IF Truthy(k8s_version) THEN Yield(K8sVersionDisclosure(k8s_version.text))
       ELSE UNCHANGED findings
    /\ pc' = "yield_privileged"
    /\ UNCHANGED <<hunter, config_pod, event, session, pods_endpoint_data, k8s_version,
                   privileged_containers, healthz, pod, requests, responses, exc, caught,
                   pods_data, idx>>

\* if privileged_containers: yield PrivilegedContainers(...)
RO_yield_privileged ==
    /\ RO /\ pc = "yield_privileged"
    /\ IF Truthy(privileged_containers)
       THEN Yield(PrivilegedContainers(privileged_containers.items))
       ELSE UNCHANGED findings
    /\ pc' = "yield_healthz"
    /\ UNCHANGED <<hunter, config_pod, event, session, pods_endpoint_data, k8s_version,
                   privileged_containers, healthz, pod, requests, responses, exc, caught,
                   pods_data, idx>>

\* if healthz: yield ExposedHealthzHandler(status=healthz)
RO_yield_healthz ==
    /\ RO /\ pc = "yield_healthz"
    /\ IF Truthy(healthz) THEN Yield(ExposedHealthzHandler(healthz.text))
       ELSE UNCHANGED findings
    /\ pc' = "yield_pods"
    /\ UNCHANGED <<hunter, config_pod, event, session, pods_endpoint_data, k8s_version,
                   privileged_containers, healthz, pod, requests, responses, exc, caught,
                   pods_data, idx>>

\* if self.pods_endpoint_data: yield ExposedPodsHandler(pods=...["items"])
RO_yield_pods ==
    /\ RO /\ pc = "yield_pods"
    /\ IF ~Truthy(pods_endpoint_data)
       THEN pc' = "done" /\ UNCHANGED <<findings, exc>>
       ELSE IF pods_endpoint_data.kind # "dict"
            THEN Raise("KeyError") /\ UNCHANGED findings
            ELSE Yield(ExposedPodsHandler(pods_endpoint_data.items))
                 /\ pc' = "done" /\ UNCHANGED exc
    /\ UNCHANGED <<hunter, config_pod, event, session, pods_endpoint_data, k8s_version,
                   privileged_containers, healthz, pod, requests, responses, caught,
                   pods_data, idx>>

---------------------------------------------------------------------------
(* SecureKubeletPortHunter *)

Sec == hunter = "SecureKubeletPortHunter"

NoTarget == [kind |-> "None", name |-> "", container |-> "", namespace |-> ""]
Target(name, container, namespace) ==
    [kind |-> "dict", name |-> name, container |-> container, namespace |-> namespace]

\* self.kubehunter_pod
kubehunter_pod == Target("kube-hunter", "kube-hunter", "default")

\* the builtin next(x) and next(x, default) applied to a list, which is what
\* pod_data["spec"]["containers"] decodes to: a list is not an iterator
PyNext(list) == Raises("TypeError")

is_default_pod(p) == p.metadata.namespace = "default" /\ p.status.phase = "Running"
is_kubesystem_pod(p) == p.metadata.namespace = "kube-system" /\ p.status.phase = "Running"

\* next(filter(f, pods_data), None) from position i on, as the index of the
\* pod, 0 for None; f is is_default_pod or is_kubesystem_pod
RECURSIVE FirstFrom(_, _, _)
FirstFrom(f, pods, i) ==
    IF i > Len(pods) THEN 0
    ELSE IF (IF f = "is_default_pod" THEN is_default_pod(pods[i])
             ELSE is_kubesystem_pod(pods[i]))
         THEN i
         ELSE FirstFrom(f, pods, i + 1)

get_random_pod(data) ==
    IF ~Truthy(data) THEN Returns(NoTarget)
    ELSE IF data.kind # "dict" THEN Raises("KeyError")
    ELSE LET pods == data.items
             d == FirstFrom("is_default_pod", pods, 1)
             k == IF d = 0 THEN FirstFrom("is_kubesystem_pod", pods, 1) ELSE d
         IN  IF k = 0 THEN Returns(NoTarget)
             ELSE LET pod_data == pods[k]
                      container_data == PyNext(pod_data.spec.containers)
                  IN  IF container_data.exc # "" THEN Raises(container_data.exc)
                      ELSE IF container_data.value.kind = "None" THEN Returns(NoTarget)
                      ELSE Returns(Target(pod_data.metadata.name,
                                          container_data.value.name,
                                          pod_data.metadata.namespace))

\* Sec_yield_anonymous_auth with a slip: tests the event's secure flag instead
Sec_yield_anonymous_auth_TestsSecure ==
    /\ Sec /\ pc = "anonymous_auth"
    /\ IF event.secure THEN Yield(AnonymousAuthEnabled) ELSE UNCHANGED findings
    /\ pc' = "get_pods"
    /\ UNCHANGED <<hunter, config_pod, event, session, pods_endpoint_data, k8s_version,
                   privileged_containers, healthz, pod, requests, responses, exc, caught,
                   pods_data, idx>>

\* if self.event.anonymous_auth: yield AnonymousAuthEnabled()
Sec_yield_anonymous_auth ==
    /\ Sec /\ pc = "anonymous_auth"
    /\ IF event.anonymous_auth THEN Yield(AnonymousAuthEnabled) ELSE UNCHANGED findings
    /\ pc' = "get_pods"
    /\ UNCHANGED <<hunter, config_pod, event, session, pods_endpoint_data, k8s_version,
                   privileged_containers, healthz, pod, requests, responses, exc, caught,
                   pods_data, idx>>

\* self.pods_endpoint_data = self.get_pods_endpoint(), sent with self.session
Sec_get_pods_endpoint ==
    /\ Sec /\ pc = "get_pods"
    /\ \E response \in PodsResponses(IF config_pod THEN SelfTestListings ELSE SecListings) :
          LET r == get_pods_endpoint(response) IN
          /\ Exchange(SessionRequest("pods", session), response)
          /\ IF r.exc # ""
             THEN Raise(r.exc) /\ UNCHANGED pods_endpoint_data
             ELSE pods_endpoint_data' = r.value /\ pc' = "check_healthz" /\ UNCHANGED exc
    /\ UNCHANGED <<hunter, config_pod, event, session, k8s_version, privileged_containers,
                   healthz, pod, findings, caught, pods_data, idx>>

\* healthz = self.check_healthz_endpoint(), sent with requests.get
Sec_check_healthz_endpoint ==
    /\ Sec /\ pc = "check_healthz"
    /\ \E response \in HealthzResponses :
          LET r == check_healthz_endpoint(response) IN
          /\ Exchange(PlainRequest("healthz"), response)
          /\ IF r.exc # ""
             THEN Raise(r.exc) /\ UNCHANGED healthz
             ELSE healthz' = r.value /\ pc' = "yield_pods" /\ UNCHANGED exc
    /\ UNCHANGED <<hunter, config_pod, event, session, pods_endpoint_data, k8s_version,
                   privileged_containers, pod, findings, caught, pods_data, idx>>

\* if self.pods_endpoint_data: yield ExposedPodsHandler(pods=...["items"])
Sec_yield_pods ==
    /\ Sec /\ pc = "yield_pods"
    /\ IF ~Truthy(pods_endpoint_data)
       THEN pc' = "yield_healthz" /\ UNCHANGED <<findings, exc>>
       ELSE IF pods_endpoint_data.kind # "dict"
            THEN Raise("KeyError") /\ UNCHANGED findings
            ELSE Yield(ExposedPodsHandler(pods_endpoint_data.items))
                 /\ pc' = "yield_healthz" /\ UNCHANGED exc
    /\ UNCHANGED <<hunter, config_pod, event, session, pods_endpoint_data, k8s_version,
                   privileged_containers, healthz, pod, requests, responses, caught,
                   pods_data, idx>>

\* if healthz: yield ExposedHealthzHandler(status=healthz)
Sec_yield_healthz ==
    /\ Sec /\ pc = "yield_healthz"
    /\ IF Truthy(healthz) THEN Yield(ExposedHealthzHandler(healthz.text))
       ELSE UNCHANGED findings
    /\ pc' = "test_handlers"
    /\ UNCHANGED <<hunter, config_pod, event, session, pods_endpoint_data, k8s_version,
                   privileged_containers, healthz, pod, requests, responses, exc, caught,
                   pods_data, idx>>

\* test_handlers, up to the try: pod = self.kubehunter_pod if config.pod else
\* self.get_random_pod(); if pod: ...
Sec_test_handlers ==
    /\ Sec /\ pc = "test_handlers"
    /\ LET r == IF config_pod THEN Returns(kubehunter_pod)
                ELSE get_random_pod(pods_endpoint_data) IN
          IF r.exc # ""
          THEN Raise(r.exc) /\ UNCHANGED pod
          ELSE /\ pod' = r.value
               /\ pc' = IF r.value.kind # "None" THEN "test_running_pods" ELSE "done"
               /\ UNCHANGED exc
    /\ UNCHANGED <<hunter, config_pod, event, session, pods_endpoint_data, k8s_version,
                   privileged_containers, healthz, findings, requests, responses, caught,
                   pods_data, idx>>

---------------------------------------------------------------------------
(* SecureKubeletPortHunter.DebugHandlers, and the try block of test_handlers
   that drives them.  Each probe is sent with the hunter's session. *)

RunningPodsResponses ==
    {TransportError,
     Response(403, <<"Forbidden">>, JsonInvalid),
     Response(200, <<"<html>">>, JsonInvalid),
     Response(200, <<"{", "}">>, Json(PyDictEmpty)),
     Response(200, <<"{", "kind", "}">>, Json(PyDictNoItems)),
     Response(200, <<"{", "items", "}">>, Json(PyDict(<<>>))),
     Response(200, <<"{", "items", "}">>,
              Json(PyDict(<<MkPod(1, "default", "Running", <<FALSE>>)>>)))}
PprofResponses ==
    {TransportError,
     Response(200, <<"kubelet", "--anonymous-auth=true">>, JsonInvalid),
     Response(200, EmptyStr, JsonInvalid),
     Response(403, <<"Forbidden">>, JsonInvalid)}
ContainerLogsResponses ==
    {TransportError,
     Response(200, <<"log line">>, JsonInvalid),
     Response(404, <<"Not Found">>, JsonInvalid)}
ExecResponses ==
    {TransportError,
     Response(302, <<"<a href=", "/cri/exec/", "AbCd", ">">>, JsonInvalid),
     Response(403, <<"Forbidden">>, JsonInvalid)}
RunStatuses == {200, 401, 403, 404, 405}
RunResponses ==
    {TransportError} \cup {Response(st, <<"body">>, JsonInvalid) : st \in RunStatuses}
PortForwardResponses ==
    {TransportError,
     Response(200, EmptyStr, JsonInvalid),
     Response(403, <<"Forbidden">>, JsonInvalid)}
AttachResponses ==
    {TransportError,
     Response(302, <<"<a href=", "/cri/attach/", "AbCd", ">">>, JsonInvalid),
     Response(403, <<"Forbidden">>, JsonInvalid)}
LogsResponses ==
    {TransportError,
     Response(200, <<"<pre>", "audit/", "</pre>">>, JsonInvalid),
     Response(403, <<"Forbidden">>, JsonInvalid)}

PyBool(b) == IF b THEN PyStr(<<"True">>) ELSE PyFalse

test_running_pods(response) ==
    IF ~response.ok THEN Raises("RequestException")
    ELSE IF response.status = 200
         THEN (IF response.json.valid THEN Returns(response.json.value)
               ELSE Raises("ValueError"))
         ELSE Returns(PyFalse)

test_pprof_cmdline(response) ==
    IF ~response.ok THEN Raises("RequestException")
    ELSE Returns(IF response.status = 200 THEN PyStr(response.text) ELSE PyNone)

test_container_logs(response) ==
    IF ~response.ok THEN Raises("RequestException")
    ELSE Returns(PyBool(response.status = 200))

test_exec_container(response) ==
    IF ~response.ok THEN Raises("RequestException")
    ELSE Returns(PyBool(Contains(response.text, "/cri/exec/")))

\* test_run_container with a slip: the status test of the sibling probes
test_run_container_Status200(response) ==
    IF ~response.ok THEN Raises("RequestException")
    ELSE Returns(PyBool(response.status = 200))

test_run_container(response) ==
    IF ~response.ok THEN Raises("RequestException")
    ELSE Returns(PyBool(response.status = 405))

\* test_port_forward with a slip: the comparison with 200 is returned
test_port_forward_Returns200(response) ==
    IF ~response.ok THEN Raises("RequestException")
    ELSE Returns(PyBool(response.status = 200))

\* the comparison with 200 is discarded and the method returns None
test_port_forward(response) ==
    IF ~response.ok THEN Raises("RequestException") ELSE Returns(PyNone)

test_attach_container(response) ==
    IF ~response.ok THEN Raises("RequestException")
    ELSE Returns(PyBool(Contains(response.text, "/cri/attach/")))

test_logs_endpoint(response) ==
    IF ~response.ok THEN Raises("RequestException")
    ELSE Returns(PyBool(Contains(response.text, "<pre>")))

\* except Exception: logger.debug(...); test_handlers and execute end
Catch(e) == pc' = "done" /\ caught' = e

\* one "if debug_handlers.test_x(): yield X()" of the try block
Probe(at, endpoint, response, r, finding, then) ==
    /\ Sec /\ pc = at
    /\ Exchange(SessionRequest(endpoint, session), response)
    /\ IF r.exc # ""
       THEN Catch(r.exc) /\ UNCHANGED findings
       ELSE /\ IF Truthy(r.value) THEN Yield(finding) ELSE UNCHANGED findings
            /\ pc' = then
            /\ UNCHANGED caught
    /\ UNCHANGED <<hunter, config_pod, event, session, pods_endpoint_data, k8s_version,
                   privileged_containers, healthz, pod, exc, pods_data, idx>>

\* running_pods = debug_handlers.test_running_pods()
\* if running_pods: yield ExposedRunningPodsHandler(count=len(running_pods["items"]))
Sec_test_running_pods ==
    /\ Sec /\ pc = "test_running_pods"
    /\ \E response \in RunningPodsResponses :
          LET r == test_running_pods(response) IN
          /\ Exchange(SessionRequest("runningpods", session), response)
          /\ IF r.exc # ""
             THEN Catch(r.exc) /\ UNCHANGED findings
             ELSE IF ~Truthy(r.value)
                  THEN pc' = "test_pprof_cmdline" /\ UNCHANGED <<findings, caught>>
                  ELSE IF r.value.kind # "dict"
                       THEN Catch("KeyError") /\ UNCHANGED findings
                       ELSE /\ Yield(ExposedRunningPodsHandler(Len(r.value.items)))
                            /\ pc' = "test_pprof_cmdline"
                            /\ UNCHANGED caught
    /\ UNCHANGED <<hunter, config_pod, event, session, pods_endpoint_data, k8s_version,
                   privileged_containers, healthz, pod, exc, pods_data, idx>>

Sec_test_pprof_cmdline ==
    \E response \in PprofResponses :
       LET r == test_pprof_cmdline(response) IN
       Probe("test_pprof_cmdline", "debug/pprof/cmdline", response, r,
             ExposedKubeletCmdline(r.value.text), "test_container_logs")

Sec_test_container_logs ==
    \E response \in ContainerLogsResponses :
       Probe("test_container_logs", "containerLogs", response,
             test_container_logs(response), ExposedContainerLogsHandler,
             "test_exec_container")

Sec_test_exec_container ==
    \E response \in ExecResponses :
       Probe("test_exec_container", "exec", response,
             test_exec_container(response), ExposedExecHandler, "test_run_container")

Sec_test_run_container ==
    \E response \in RunResponses :
       Probe("test_run_container", "run", response,
             test_run_container(response), ExposedRunHandler, "test_port_forward")

Sec_test_port_forward ==
    \E response \in PortForwardResponses :
       Probe("test_port_forward", "portForward", response,
             test_port_forward(response), ExposedPortForwardHandler,
             "test_attach_container")

Sec_test_attach_container ==
    \E response \in AttachResponses :
       Probe("test_attach_container", "attach", response,
             test_attach_container(response), ExposedAttachHandler, "test_logs_endpoint")

Sec_test_logs_endpoint ==
    \E response \in LogsResponses :
       Probe("test_logs_endpoint", "logs", response,
             test_logs_endpoint(response), ExposedSystemLogs, "done")

---------------------------------------------------------------------------
(* ProveRunHandler and ProveContainerLogsHandler *)

ProveRun == hunter = "ProveRunHandler"
ProveLogs == hunter = "ProveContainerLogsHandler"

RunOutputResponses ==
    {TransportError,
     Response(200, <<"Linux node-1 5.4.0">>, JsonInvalid),
     Response(200, <<"command 'uname -a' ", "exited with", " 126">>, JsonInvalid),
     Response(200, EmptyStr, JsonInvalid),
     Response(403, <<"Forbidden">>, JsonInvalid)}
ContainerLogsOutputResponses ==
    {TransportError,
     Response(200, <<"log line">>, JsonInvalid),
     Response(200, EmptyStr, JsonInvalid),
     Response(404, <<"Not Found">>, JsonInvalid)}

\* r.json()["items"] / json.loads(pods_raw)["items"] behind the "items" in text test:
\* the candidates as a list, None when the marker is missing
candidates(response) ==
    IF ~response.ok THEN Raises("RequestException")
    ELSE IF ~Contains(response.text, "items") THEN Returns(PyNone)
    ELSE IF ~response.json.valid THEN Raises("ValueError")
    ELSE IF response.json.value.kind # "dict" THEN Raises("KeyError")
    ELSE Returns(PyList(response.json.value.items))

\* the fetch of the listing that opens both execute methods, with event.session
Prove_get_pods(endpoint) ==
    /\ pc = "get_pods"
    /\ \E response \in PodsResponses(SecListings) :
          LET r == candidates(response) IN
          /\ Exchange(SessionRequest(endpoint, event.session), response)
          /\ IF r.exc # ""
             THEN Raise(r.exc) /\ UNCHANGED pods_data
             ELSE /\ pods_data' = r.value.items
                  /\ pc' = IF r.value.kind = "None" THEN "done" ELSE "for_pod_data"
                  /\ UNCHANGED exc
    /\ UNCHANGED <<hunter, config_pod, event, session, pods_endpoint_data, k8s_version,
                   privileged_containers, healthz, pod, findings, caught, idx>>

ProveRun_get_pods == ProveRun /\ Prove_get_pods("pods")
ProveLogs_get_pods == ProveLogs /\ Prove_get_pods("pods")

\* ProveRunHandler.run: self.event.session.post(...).text
run(response) ==
    IF ~response.ok THEN Raises("RequestException") ELSE Returns(PyStr(response.text))

\* one turn of "for pod_data in pods_data" in ProveRunHandler.execute
ProveRun_for_pod_data ==
    /\ ProveRun /\ pc = "for_pod_data"
    /\ IF idx > Len(pods_data)
       THEN pc' = "done" /\ UNCHANGED <<event, requests, responses, exc, idx>>
       ELSE LET pod_data == pods_data[idx]
                container_data == PyNext(pod_data.spec.containers)
            IN  IF container_data.exc # ""
                THEN Raise(container_data.exc) /\ UNCHANGED <<event, requests, responses, idx>>
                ELSE IF container_data.value.kind = "None"
                THEN idx' = idx + 1 /\ UNCHANGED <<event, requests, responses, exc, pc>>
                ELSE \E response \in RunOutputResponses :
                        LET output == run(response) IN
                        /\ Exchange(SessionRequest("run", event.session), response)
                        /\ IF output.exc # ""
                           THEN Raise(output.exc) /\ UNCHANGED <<event, idx>>
                           ELSE IF Truthy(output.value)
                                   /\ ~Contains(output.value.text, "exited with")
                                THEN /\ event' = [event EXCEPT !.evidence =
                                            PyStr(<<"uname -a: ">> \o output.value.text)]
                                     /\ pc' = "done"
                                     /\ UNCHANGED <<exc, idx>>
                                ELSE idx' = idx + 1 /\ UNCHANGED <<event, exc, pc>>
    /\ UNCHANGED <<hunter, config_pod, session, pods_endpoint_data, k8s_version,
                   privileged_containers, healthz, pod, findings, caught, pods_data>>

\* one turn of "for pod_data in pods_data" in ProveContainerLogsHandler.execute
ProveLogs_for_pod_data ==
    /\ ProveLogs /\ pc = "for_pod_data"
    /\ IF idx > Len(pods_data)
       THEN pc' = "done" /\ UNCHANGED <<event, requests, responses, exc, idx>>
       ELSE LET pod_data == pods_data[idx]
                container_data == PyNext(pod_data.spec.containers)
            IN  IF container_data.exc # ""
                THEN Raise(container_data.exc) /\ UNCHANGED <<event, requests, responses, idx>>
                ELSE IF container_data.value.kind = "None"
                THEN idx' = idx + 1 /\ UNCHANGED <<event, requests, responses, exc, pc>>
                ELSE \E response \in ContainerLogsOutputResponses :
                        /\ Exchange(PlainRequest("containerLogs"), response)
                        /\ IF ~response.ok
                           THEN Raise("RequestException") /\ UNCHANGED <<event, idx>>
                           ELSE IF response.status = 200 /\ response.text # EmptyStr
                                THEN /\ event' = [event EXCEPT !.evidence =
                                            PyStr(<<container_data.value.name, ": ">>
                                                  \o response.text)]
                                     /\ pc' = "done"
                                     /\ UNCHANGED <<exc, idx>>
                                ELSE idx' = idx + 1 /\ UNCHANGED <<event, exc, pc>>
    /\ UNCHANGED <<hunter, config_pod, session, pods_endpoint_data, k8s_version,
                   privileged_containers, healthz, pod, findings, caught, pods_data>>

---------------------------------------------------------------------------

Next ==
    \/ RO_get_pods_endpoint
    \/ RO_get_k8s_version
    \/ RO_find_privileged_containers
    \/ RO_check_healthz_endpoint
    \/ RO_yield_version
    \/ RO_yield_privileged
    \/ RO_yield_healthz
    \/ RO_yield_pods
    \/ Sec_yield_anonymous_auth
    \/ Sec_get_pods_endpoint
    \/ Sec_check_healthz_endpoint
    \/ Sec_yield_pods
    \/ Sec_yield_healthz
    \/ Sec_test_handlers
    \/ Sec_test_running_pods
    \/ Sec_test_pprof_cmdline
    \/ Sec_test_container_logs
    \/ Sec_test_exec_container
    \/ Sec_test_run_container
    \/ Sec_test_port_forward
    \/ Sec_test_attach_container
    \/ Sec_test_logs_endpoint
    \/ ProveRun_get_pods
    \/ ProveRun_for_pod_data
    \/ ProveLogs_get_pods
    \/ ProveLogs_for_pod_data

Spec == Init /\ [][Next]_vars

---------------------------------------------------------------------------
(* Properties. *)

FindingsOf(type) == {i \in DOMAIN findings : findings[i].type = type}
HasFinding(type) == FindingsOf(type) # {}
Sent(endpoint) == \E i \in DOMAIN requests : requests[i].endpoint = endpoint
\* the endpoint was asked and it answered (no transport failure)
Answered(endpoint) == \E i \in DOMAIN responses :
                         responses[i].endpoint = endpoint /\ responses[i].ok
\* the request to the endpoint raised a transport error
Failed(endpoint) == \E i \in DOMAIN responses :
                       responses[i].endpoint = endpoint /\ ~responses[i].ok
AnsweredWith(endpoint, status) == \E i \in DOMAIN responses :
    responses[i].endpoint = endpoint /\ responses[i].ok /\ responses[i].status = status

BatteryFindings ==
    [runningpods |-> "ExposedRunningPodsHandler",
     pprof |-> "ExposedKubeletCmdline",
     containerLogs |-> "ExposedContainerLogsHandler",
     run |-> "ExposedRunHandler",
     attach |-> "ExposedAttachHandler",
     logs |-> "ExposedSystemLogs"]

AnsweredWithBody(endpoint, status) == \E i \in DOMAIN responses :
    /\ responses[i].endpoint = endpoint /\ responses[i].ok
    /\ responses[i].status = status /\ responses[i].text # EmptyStr

\* C1: in a secure-port run with a probing target, when the exec probe raises a
\* transport error every other probe of the battery is still made, those after
\* exec (run, attach, system logs) as well as those before it, and each probe
\* that succeeds has its finding.
C1_ExecFailureKeepsOtherProbes ==
    (Sec /\ pc = "done" /\ pod.kind # "None" /\ Failed("exec")) =>
        /\ AnsweredWithBody("debug/pprof/cmdline", 200) => HasFinding(BatteryFindings.pprof)
        /\ AnsweredWith("containerLogs", 200) => HasFinding(BatteryFindings.containerLogs)
        /\ Sent("run") /\ (AnsweredWith("run", 405) => HasFinding(BatteryFindings.run))
        /\ Sent("attach")
        /\ Sent("logs")

\* C2: no exception propagates out of ReadOnlyKubeletPortHunter.execute or
\* SecureKubeletPortHunter.execute, whatever the fetches answer.
C2_NoExceptionLeavesExecute ==
    (RO \/ Sec) => (pc # "raised" /\ exc = "")

\* C3: a read-only run that got a health response emits exactly one
\* ExposedHealthzHandler whose status is the response body when the status is
\* 200 (the empty body included), and none when the status is not 200.
C3_HealthFindingIffStatus200 ==
    (RO /\ pc = "done") =>
        \A i \in DOMAIN responses :
            responses[i].endpoint = "healthz" =>
                IF responses[i].status = 200
                THEN /\ Cardinality(FindingsOf("ExposedHealthzHandler")) = 1
                     /\ \A f \in FindingsOf("ExposedHealthzHandler") :
                           findings[f].status = responses[i].text
                ELSE ~HasFinding("ExposedHealthzHandler")

\* the selection the pod selector is specified to make from a listing
FirstPodWhere(items, namespace) ==
    LET S == {i \in DOMAIN items : /\ items[i].metadata.namespace = namespace
                                   /\ items[i].status.phase = "Running"}
    IN  IF S = {} THEN 0 ELSE CHOOSE i \in S : \A j \in S : i <= j
SelectedPod(items) ==
    LET d == FirstPodWhere(items, "default")
        k == IF d # 0 THEN d ELSE FirstPodWhere(items, "kube-system")
    IN  IF k = 0 \/ items[k].spec.containers = <<>> THEN NoTarget
        ELSE Target(items[k].metadata.name, items[k].spec.containers[1].name,
                    items[k].metadata.namespace)

\* test_handlers has evaluated get_random_pod()
SelectorActed ==
    /\ Sec /\ ~config_pod
    /\ \/ pc = "done"
       \/ pc = "raised" /\ Sent("healthz") /\ Answered("healthz") /\ exc = "TypeError"

\* C4: outside self-test mode get_random_pod returns the first Running pod of
\* namespace default, else the first Running pod of kube-system, with the name
\* of its first container, and no target when no pod matches.
C4_SelectorReturnsFirstRunningPod ==
    SelectorActed =>
        /\ pc # "raised"
        /\ pod = SelectedPod(IF pods_endpoint_data.kind = "dict"
                             THEN pods_endpoint_data.items ELSE <<>>)

\* the privileged containers of a listing as positions <<pod, container>>
PrivilegedAt(items) ==
    {a \in UNION {{<<i, j>> : j \in DOMAIN items[i].spec.containers} : i \in DOMAIN items} :
        items[a[1]].spec.containers[a[2]].securityContext.privileged}
\* the place of a position in pod-then-container order among the positions of S
RankIn(a, S) ==
    Cardinality({b \in S : b[1] < a[1] \/ (b[1] = a[1] /\ b[2] <= a[2])})
FetchedItems == IF pods_endpoint_data.kind = "dict" THEN pods_endpoint_data.items ELSE <<>>

C6_AllFetchesEveryRun ==
    (RO /\ Finished) =>
        /\ Sent("pods") /\ Sent("metrics") /\ Sent("healthz")
        /\ pods_endpoint_data.kind = "dict" => HasFinding("ExposedPodsHandler")

\* C7: in a secure-port run with the anonymous-access flag set,
\* AnonymousAuthEnabled is the first finding and is emitted before any request
\* is sent, so it is there however the run goes on; without the flag it is never
\* emitted.
C7_AnonymousAuthFirst ==
    Sec =>
        /\ Cardinality(FindingsOf("AnonymousAuthEnabled")) <= 1
        /\ ~event.anonymous_auth => ~HasFinding("AnonymousAuthEnabled")
        /\ (event.anonymous_auth /\ (requests # <<>> \/ findings # <<>> \/ Finished)) =>
              findings # <<>> /\ findings[1] = AnonymousAuthEnabled

\* a flagged run that ended with an exception after its first request and
\* reported the anonymous-auth finding all the same
C7_Witness ==
    /\ Sec /\ event.anonymous_auth /\ pc = "raised" /\ requests # <<>>
    /\ findings = <<AnonymousAuthEnabled>>

\* C8: in an authenticated secure-port run the pods-listing fetch and the
\* health fetch both go through the session and carry its bearer credential.
C8_PodsAndHealthUseSession ==
    (Sec /\ event.secure) =>
        \A i \in DOMAIN requests :
            requests[i].endpoint \in {"pods", "healthz"} =>
                /\ requests[i].via = "session"
                /\ requests[i].authorization = Bearer(event.auth_token)

\* C9: a secure-port run emits ExposedRunHandler iff the GET on the run
\* endpoint was answered with status 405; every other status gives none.
C9_RunPositiveIff405 ==
    Sec =>
        /\ HasFinding("ExposedRunHandler") <=> AnsweredWith("run", 405)
        /\ Cardinality(FindingsOf("ExposedRunHandler")) <= 1

\* a run whose run probe was answered 405 and that reported the run handler
C9_Witness ==
    Sec /\ pc = "done" /\ AnsweredWith("run", 405) /\ HasFinding("ExposedRunHandler")

\* C10: once a proof hunter has its candidates, a candidate that fails only
\* moves the iteration on; the hunter ends normally, and when no candidate was
\* conclusive the evidence of the triggering finding is unset.
C10_FailedCandidateAdvances ==
    ((ProveRun \/ ProveLogs) /\ Finished /\ Answered("pods") /\ pods_data # <<>>) =>
        /\ pc = "done"
        /\ (~Sent("run") /\ ~Sent("containerLogs")) => event.evidence = PyNone

\* the run requests answered so far, as positions in the log
RunsAt == {i \in DOMAIN responses : responses[i].endpoint = "run"}
\* a run output the proof accepts: non-empty and without the non-zero-exit text
Conclusive(r) == r.ok /\ r.text # EmptyStr /\ ~Contains(r.text, "exited with")
\* the candidates of a listing: its pods that declare a container
CandidatesIn(pods) == {i \in DOMAIN pods : pods[i].spec.containers # <<>>}

\* C11: ProveRunHandler tries the candidates in the order of the listing; when it
\* ends, either the evidence is the output of the first conclusive candidate,
\* which is the last run request made, or no candidate was conclusive and every
\* one of them was asked.
C11_FirstConclusiveRunOutput ==
    (ProveRun /\ Finished /\ Answered("pods") /\ CandidatesIn(pods_data) # {}) =>
        \/ /\ event.evidence.kind = "str"
           /\ \E i \in RunsAt :
                 /\ Conclusive(responses[i])
                 /\ event.evidence.text = responses[i].text
                 /\ \A j \in RunsAt : j <= i /\ (j < i => ~Conclusive(responses[j]))
        \/ /\ event.evidence = PyNone
           /\ Cardinality(RunsAt) = Cardinality(CandidatesIn(pods_data))
           /\ \A j \in RunsAt : ~Conclusive(responses[j])

====
